---- MODULE Spec2Model ----
(***************************************************************************)
(* Model of the Demon transport layer: the host pool of TransportHttp.c    *)
(* (HostCount, HostRandom, HostRotation, HostFailure), the request/response*)
(* send HttpSend and its callers TransportSend and TransportInit, and the   *)
(* named-pipe transport of TransportSmb.c (SmbSend, SmbRecv) with its      *)
(* caller SMBGetJob.                                                       *)
(*                                                                         *)
(* A host record is a positive integer, NULL is 0.  The pool is the singly *)
(* linked list Hosts -> Next[Hosts] -> ... -> NULL built by HostAdd, which  *)
(* links every new record in as the new head.                              *)
(***************************************************************************)
EXTENDS Integers, Sequences, FiniteSets, TLC

\* ---------------------------------------------------------------- bounds
MaxHosts   == 3    \* largest pool explored
MaxRetries == 2    \* largest HostMaxRetries explored
MaxRand    == 3    \* RandomNumber32() is drawn from 0..MaxRand
MaxPipeBytes == 17 \* most bytes the peer leaves unread in the pipe


\* ------------------------------------------------------------- constants
NULL == 0
TRANSPORT_HTTP_ROTATION_ROUND_ROBIN == "RoundRobin"
TRANSPORT_HTTP_ROTATION_RANDOM      == "Random"
Strategies == {TRANSPORT_HTTP_ROTATION_ROUND_ROBIN, TRANSPORT_HTTP_ROTATION_RANDOM}
RandVals   == 0..MaxRand

\* what the network does to one HttpSend call
Outcomes == {"OpenFail", "ConnectFail", "OpenRequestFail", "SendFail",
             "SendFailCannotConnect", "ReceiveFail", "QueryFail", "StatusNot200",
             "Ok"}
HTTP_STATUS_OK == 200

VARIABLES
    Hosts,              \* Instance->Config.Transport.Hosts: head of the list
    Next,               \* HOST_DATA.Next of every allocated record
    Dead,               \* HOST_DATA.Dead
    Failures,           \* HOST_DATA.Failures
    Host,               \* Instance->Config.Transport.Host: the current host
    NumHosts,           \* Instance->Config.Transport.NumHosts
    HostMaxRetries,     \* Instance->Config.Transport.HostMaxRetries
    RotationStrategy,   \* Instance->Config.Transport.HostRotation
    LookedForProxy,     \* Instance->LookedForProxy
    hHttpSession,       \* Instance->hHttpSession is open
    Connected,          \* Instance->Session.Connected
    ProxyEnabled,       \* Instance->Config.Transport.Proxy.Enabled
    terminated,         \* the process has exited (CommandExit or a fault)
    failedSends,        \* number of sends that returned FALSE so far
    initialHost,        \* the current host after configuration
    proxyLookups,       \* proxy lookups made since the latest HostRotation
    Handle,             \* Instance->Config.Transport.Handle: the stored pipe handle
    HandleOpen,         \* the handle last created has not been closed
    PipeData,           \* the bytes the peer wrote that are not read yet
    smbLast,            \* what the most recent pipe call did and returned
    ProxyForUrl,        \* Instance->ProxyForUrl: the cached proxy descriptor
    read,               \* the response read loop of HttpSend, step by step
    callers,            \* the HostFailure calls in progress, step by step
    walk,               \* the list walk in progress, step by step
    last                \* what the most recent call did and returned

vars == <<Hosts, Next, Dead, Failures, Host, NumHosts, HostMaxRetries,
          RotationStrategy, LookedForProxy, hHttpSession, Connected,
          ProxyEnabled, terminated, failedSends, initialHost, proxyLookups,
          Handle, HandleOpen, PipeData, smbLast, ProxyForUrl, read, callers,
          walk, last>>

\* failed sends explored: enough to exhaust a bounded pool and send once more,
\* and to run an unlimited pool dead twice and send once more
MaxFailedSends == NumHosts * (HostMaxRetries + 2) + 1

config == <<Hosts, Next, NumHosts, HostMaxRetries, RotationStrategy, ProxyEnabled,
            initialHost>>

Records == DOMAIN Next

\* the state of the pipe transport, which the HTTP calls never touch
smb == <<Handle, HandleOpen, PipeData, smbLast>>

\* the loops and calls that are followed step by step
steps == <<read, callers, walk>>

\* ------------------------------------------------------------- HostCount
RECURSIVE CountWalk(_, _)
CountWalk(h, Count) ==
    IF h = NULL THEN Count
    ELSE IF Next[h] = Hosts THEN Count + 1
    ELSE CountWalk(Next[h], Count + 1)

HostCount == CountWalk(Hosts, 0)

\* the records on the list, in link order from h
RECURSIVE ListFrom(_)
ListFrom(h) == IF h = NULL THEN <<>> ELSE <<h>> \o ListFrom(Next[h])

Range(s) == {s[i] : i \in 1..Len(s)}

\* ------------------------------------------------------------ HostRandom
RECURSIVE RandomWalk(_, _, _)
RandomWalk(h, Count, Index) ==
    IF Count = Index THEN h
    ELSE IF h = NULL THEN NULL
    ELSE IF Next[h] = NULL THEN NULL
    ELSE RandomWalk(Next[h], Count + 1, Index)

\* r is the value RandomNumber32() returns; HostCount is not 0 here
HostRandom(r) == RandomWalk(Hosts, 0, r % HostCount)

\* ---------------------------------------------------------- HostRotation
\* a loop that gives up at the first dead record
RoundRobinScan_StopsAtDead(h, D) == IF h = NULL THEN NULL ELSE IF D[h] THEN NULL ELSE h

\* the loop without its Dead test
RoundRobinScan_NoSkip(h, D) == h

\* the RoundRobin loop: from h, skip dead records
RECURSIVE RoundRobinScan(_, _)
RoundRobinScan(h, D) ==
    IF h = NULL THEN NULL
    ELSE IF D[h] THEN RoundRobinScan(Next[h], D)
    ELSE h

\* variants of the reset with a slip in it
\* ... the head is returned but the records are left as they are
InfiniteReset_NoClear(h, D, F, L, tr, pk) ==
    IF HostMaxRetries = 0 /\ h = NULL
    THEN [ret |-> Hosts, Dead |-> D, Failures |-> F,
          LookedForProxy |-> L, reset |-> TRUE, trace |-> tr, pick |-> pk]
    ELSE [ret |-> h, Dead |-> D, Failures |-> F,
          LookedForProxy |-> L, reset |-> FALSE, trace |-> tr, pick |-> pk]

\* ... the records are reset but the caller is not sent back to the head
InfiniteReset_NoHead(h, D, F, L, tr, pk) ==
    IF HostMaxRetries = 0 /\ h = NULL
    THEN [ret |-> NULL,
          Dead |-> [x \in DOMAIN D |-> FALSE],
          Failures |-> [x \in DOMAIN F |-> 0],
          LookedForProxy |-> L, reset |-> TRUE, trace |-> tr, pick |-> pk]
    ELSE [ret |-> h, Dead |-> D, Failures |-> F,
          LookedForProxy |-> L, reset |-> FALSE, trace |-> tr, pick |-> pk]

\* ... the reset never happens
InfiniteReset_Never(h, D, F, L, tr, pk) ==
    [ret |-> h, Dead |-> D, Failures |-> F,
     LookedForProxy |-> L, reset |-> FALSE, trace |-> tr, pick |-> pk]

\* ... the reset does not look at HostMaxRetries
InfiniteReset_Always(h, D, F, L, tr, pk) ==
    IF h = NULL
    THEN [ret |-> Hosts,
          Dead |-> [x \in DOMAIN D |-> FALSE],
          Failures |-> [x \in DOMAIN F |-> 0],
          LookedForProxy |-> L, reset |-> TRUE, trace |-> tr, pick |-> pk]
    ELSE [ret |-> h, Dead |-> D, Failures |-> F,
          LookedForProxy |-> L, reset |-> FALSE, trace |-> tr, pick |-> pk]

\* the tail of HostRotation: the infinite-retries reset
InfiniteReset(h, D, F, L, tr, pk) ==
    IF HostMaxRetries = 0 /\ h = NULL
    THEN [ret |-> Hosts,
          Dead |-> [x \in DOMAIN D |-> IF x \in Range(ListFrom(Hosts)) THEN FALSE ELSE D[x]],
          Failures |-> [x \in DOMAIN F |-> IF x \in Range(ListFrom(Hosts)) THEN 0 ELSE F[x]],
          LookedForProxy |-> L, reset |-> TRUE, trace |-> tr, pick |-> pk]
    ELSE [ret |-> h, Dead |-> D, Failures |-> F,
          LookedForProxy |-> L, reset |-> FALSE, trace |-> tr, pick |-> pk]

\* HostRotation( Strategy ) on the pool state D (Dead), F (Failures),
\* L (LookedForProxy); r is what RandomNumber32() returns if it is called.
\* The result carries the returned host, the new pool state and, for the
\* record, the strategies entered (trace) and the host HostRandom drew (pick).
RECURSIVE HostRotation(_, _, _, _, _)

\* a fallback that goes on from the record drawn instead of calling HostRotation
RandomFallback_FromPick(h, D, F, L, r) ==
    [ret |-> RoundRobinScan(Next[h], D), Dead |-> D, Failures |-> F,
     LookedForProxy |-> L, reset |-> FALSE,
     trace |-> <<TRANSPORT_HTTP_ROTATION_ROUND_ROBIN>>, pick |-> NULL]

\* the Random strategy drew the dead record h: fall back to Round Robin
RandomFallback(h, D, F, L, r) ==
    HostRotation(TRANSPORT_HTTP_ROTATION_ROUND_ROBIN, D, F, L, r)

\* the proxy flag cleared whatever the number of hosts
InvalidateProxy_Always(L) == FALSE

\* the head of HostRotation: with more than one host the proxy looked up
\* for the old host is looked up again for the new one
InvalidateProxy(L) == IF NumHosts > 1 THEN FALSE ELSE L

HostRotation(Strategy, D, F, L, r) ==
    LET L1 == InvalidateProxy(L)
    IN  IF Strategy = TRANSPORT_HTTP_ROTATION_ROUND_ROBIN
        THEN IF Host = NULL
             THEN [ret |-> Hosts, Dead |-> D, Failures |-> F, LookedForProxy |-> L1,
                   reset |-> FALSE, trace |-> <<Strategy>>, pick |-> NULL]
             ELSE InfiniteReset(IF 0 < HostCount THEN RoundRobinScan(Hosts, D) ELSE Hosts,
                                D, F, L1, <<Strategy>>, NULL)
        ELSE IF Strategy = TRANSPORT_HTTP_ROTATION_RANDOM
        THEN LET h == HostRandom(r)
             IN  IF D[h]
                 THEN LET rr == RandomFallback(h, D, F, L1, r)
                          o  == InfiniteReset(rr.ret, rr.Dead, rr.Failures, rr.LookedForProxy,
                                              <<Strategy>> \o rr.trace, h)
                      IN  [o EXCEPT !.reset = rr.reset \/ o.reset]
                 ELSE InfiniteReset(h, D, F, L1, <<Strategy>>, h)
        ELSE InfiniteReset(NULL, D, F, L1, <<Strategy>>, NULL)

\* ----------------------------------------------------------- HostFailure
NoRotation == [called |-> FALSE, reset |-> FALSE, trace |-> <<>>, pick |-> NULL, ret |-> NULL]

\* HostFailure that gives up a host one failure early
HostFailure_Early(h, L, r) ==
    IF h = NULL
    THEN NoRotation @@ [Dead |-> Dead, Failures |-> Failures, LookedForProxy |-> L]
    ELSE IF Failures[h] + 1 >= HostMaxRetries
    THEN [called |-> TRUE] @@
         HostRotation(RotationStrategy, [Dead EXCEPT ![h] = TRUE], Failures, L, r)
    ELSE [ret |-> h] @@ NoRotation @@
         [Dead |-> Dead, Failures |-> [Failures EXCEPT ![h] = @ + 1],
          LookedForProxy |-> L]

\* HostFailure with > for == in its limit test
HostFailure_Greater(h, L, r) ==
    IF h = NULL
    THEN NoRotation @@ [Dead |-> Dead, Failures |-> Failures, LookedForProxy |-> L]
    ELSE IF Failures[h] > HostMaxRetries
    THEN [called |-> TRUE] @@
         HostRotation(RotationStrategy, [Dead EXCEPT ![h] = TRUE], Failures, L, r)
    ELSE [ret |-> h] @@ NoRotation @@
         [Dead |-> Dead, Failures |-> [Failures EXCEPT ![h] = @ + 1],
          LookedForProxy |-> L]

\* HostFailure( h ) called with LookedForProxy = L; the result is the returned
\* host, the new pool state and what the rotation did, if there was one
HostFailure(h, L, r) ==
    IF h = NULL
    THEN NoRotation @@ [Dead |-> Dead, Failures |-> Failures, LookedForProxy |-> L]
    ELSE IF Failures[h] = HostMaxRetries
    THEN [called |-> TRUE] @@
         HostRotation(RotationStrategy, [Dead EXCEPT ![h] = TRUE], Failures, L, r)
    ELSE [ret |-> h] @@ NoRotation @@
         [Dead |-> Dead, Failures |-> [Failures EXCEPT ![h] = @ + 1],
          LookedForProxy |-> L]

\* ------------------------------------------------------- HttpQueryStatus
\* a status query that reports 200 whatever the server said
HttpQueryStatus_Always200(queryOk, StatusCode) == HTTP_STATUS_OK

\* HttpQueryStatus( Request ): the status code of the response, 0 when
\* WinHttpQueryHeaders fails
HttpQueryStatus(queryOk, StatusCode) == IF queryOk THEN StatusCode ELSE 0

\* the steps of the exchange an outcome lets through
Sent(o)     == o \in {"ReceiveFail", "QueryFail", "StatusNot200", "Ok"}
Received(o) == o \in {"QueryFail", "StatusNot200", "Ok"}
\* the status line the server answers with
ReplyStatus(o) == IF o = "Ok" THEN 200 ELSE 404

\* --------------------------------------------------------------- HttpSend
\* a proxy step that does not look at LookedForProxy
ProxyLookup_Always(requests) ==
    IF requests = 1 /\ ~ProxyEnabled THEN 1 ELSE 0

\* the proxy step of a request: the number of lookups (WinHttpGetProxyForUrl
\* with its WinHttpGetIEProxyConfigForCurrentUser fall-back) it makes
ProxyLookup(requests) ==
    IF requests = 1 /\ ~ProxyEnabled /\ ~LookedForProxy THEN 1 ELSE 0

\* a WINHTTP_PROXY_INFO block allocated for Instance->ProxyForUrl
ProxyInfo == 1

\* what the proxy step leaves in Instance->ProxyForUrl: a lookup that finds a
\* proxy stores a new block, a lookup that finds none, like no lookup, stores
\* nothing
ProxyDiscovery(lookup, found) ==
    IF lookup = 1 /\ found THEN ProxyInfo ELSE ProxyForUrl

\* the descriptor given to WinHttpSetOption( Request, WINHTTP_OPTION_PROXY ):
\* whatever Instance->ProxyForUrl holds once the proxy step is over
ProxyApplied(requests, P) == IF requests = 1 THEN P ELSE NULL

\* a success that clears the failure counter of the current host
SuccessReturn_Resets(L) ==
    [ret |-> Host] @@ NoRotation @@
    [Dead |-> Dead, Failures |-> [Failures EXCEPT ![Host] = 0], LookedForProxy |-> L]

\* the end of a successful HttpSend: the failure accounting is passed over,
\* the current host and every record stay as they are
SuccessReturn(L) ==
    [ret |-> Host] @@ NoRotation @@
    [Dead |-> Dead, Failures |-> Failures, LookedForProxy |-> L]

\* a LEAVE block that closes the request handle only
Leave_KeepsConnect(connects, requests) == requests

\* LEAVE: the handles WinHttpCloseHandle is called on, Connect if the call
\* opened a connection and Request if it opened a request
Leave(connects, requests) ==
    (IF connects # 0 THEN 1 ELSE 0) + (IF requests # 0 THEN 1 ELSE 0)

\* HttpSend without the test of Successful before the failure accounting
HttpSend_AlwaysAccount(o, Resp, r) ==
    LET connects == IF o \in {"OpenFail", "ConnectFail"} THEN 0 ELSE 1
        requests == IF connects = 1 /\ o # "OpenRequestFail" THEN 1 ELSE 0
        lookup   == ProxyLookup(requests)
        L        == IF lookup = 1 THEN TRUE ELSE LookedForProxy
        status   == IF Received(o) THEN HttpQueryStatus(o # "QueryFail", ReplyStatus(o))
                    ELSE 0
        Successful == Received(o) /\ status = HTTP_STATUS_OK /\ Resp
    IN  [Successful |-> Successful, hHttpSession |-> hHttpSession \/ o # "OpenFail",
         Connected |-> IF o = "SendFailCannotConnect" THEN FALSE ELSE Connected,
         connects |-> connects, requests |-> requests, attempts |-> requests,
         closed |-> Leave(connects, requests), failureCalls |-> 1,
         lookup |-> lookup, status |-> status, respWritten |-> Successful]
        @@ HostFailure(Host, L, r)

\* HttpSend( Send, Resp ) with a current host, when the network answers with
\* outcome o; Resp says whether the caller passed a response buffer.  The
\* result is the return value, the new session and pool state, the handles
\* opened and closed, and what the failure accounting did.
HttpSend(o, Resp, r) ==
    LET connects   == IF o \in {"OpenFail", "ConnectFail"} THEN 0 ELSE 1
        requests   == IF connects = 1 /\ o # "OpenRequestFail" THEN 1 ELSE 0
        \* the proxy lookup of a request without a configured proxy, which
        \* sets LookedForProxy whether it finds a proxy or not
        lookup     == ProxyLookup(requests)
        L          == IF lookup = 1 THEN TRUE ELSE LookedForProxy
        \* the status is queried once the response is received
        status     == IF Received(o)
                      THEN HttpQueryStatus(o # "QueryFail", ReplyStatus(o)) ELSE 0
        \* the body is read, and Resp written, only after a 200 and with a Resp
        Successful == Received(o) /\ status = HTTP_STATUS_OK /\ Resp
    IN  [Successful |-> Successful, hHttpSession |-> hHttpSession \/ o # "OpenFail",
         Connected |-> IF o = "SendFailCannotConnect" THEN FALSE ELSE Connected,
         connects |-> connects, requests |-> requests, attempts |-> requests,
         closed |-> Leave(connects, requests),
         failureCalls |-> IF Successful THEN 0 ELSE 1,
         lookup |-> lookup, status |-> status, respWritten |-> Successful]
        @@ (IF Successful
            THEN SuccessReturn(L)
            ELSE HostFailure(Host, L, r))

\* CommandExit( NULL ): the process ends
CommandExit == terminated' = TRUE

NoCall == [op |-> "none", strategy |-> "none", outcome |-> "none", ok |-> FALSE,
           fatal |-> FALSE, host |-> NULL, connects |-> 0, requests |-> 0,
           attempts |-> 0, closed |-> 0, failureCalls |-> 0, rot |-> NoRotation,
           pre |-> <<>>, lookup |-> 0, status |-> 0, RecvData |-> "unset",
           Data |-> <<>>, slack |-> <<>>, preConnected |-> FALSE, r |-> 0,
           found |-> FALSE, applied |-> NULL, open |-> 0]

\* the pool state a call started from
PreState == [Dead |-> Dead, Failures |-> Failures, LookedForProxy |-> LookedForProxy,
             proxyLookups |-> proxyLookups, ProxyForUrl |-> ProxyForUrl]

\* --------------------------------------------------------- TransportSend
\* the values HostRandom can draw during a send: it is called only when the
\* Random strategy rotates, that is when the current host is at its limit
RandomDraws ==
    IF /\ RotationStrategy = TRANSPORT_HTTP_ROTATION_RANDOM
       /\ Host # NULL
       /\ Failures[Host] = HostMaxRetries
    THEN RandVals ELSE {0}

\* TransportSend with a current host: one HttpSend( &Send, &Resp ); counted
\* says whether a failed send is added to failedSends
Exchange(counted) ==
    /\ ~terminated
    /\ Host # NULL
    /\ \E o \in Outcomes, r \in RandomDraws :
          /\ o = "OpenFail" => ~hHttpSession
          /\ \E s \in {HttpSend(o, TRUE, r)} :
              \E found \in (IF s.lookup = 1 THEN BOOLEAN ELSE {FALSE}) :
              \E P \in {ProxyDiscovery(s.lookup, found)} :
                 /\ (counted /\ ~s.Successful) => failedSends < MaxFailedSends
                 /\ ProxyForUrl'    = P
                 /\ hHttpSession'   = s.hHttpSession
                 /\ Connected'      = s.Connected
                 /\ Host'           = s.ret
                 /\ Dead'           = s.Dead
                 /\ Failures'       = s.Failures
                 /\ LookedForProxy' = s.LookedForProxy
                 /\ failedSends'    = IF s.Successful \/ ~counted THEN failedSends
                                      ELSE failedSends + 1
                 /\ proxyLookups'   = IF s.called THEN 0 ELSE proxyLookups + s.lookup
                 /\ last' = [NoCall EXCEPT !.op = "TransportSend", !.outcome = o,
                                !.lookup = s.lookup, !.status = s.status,
                                !.found = found,
                                !.applied = ProxyApplied(s.requests, P),
                                !.RecvData = IF ~s.Successful THEN "unset"
                                             ELSE IF s.respWritten THEN "Resp.Buffer"
                                             ELSE "NULL",
                                !.ok = s.Successful, !.host = Host,
                                !.connects = s.connects, !.requests = s.requests,
                                !.attempts = s.attempts, !.closed = s.closed,
                                !.open = last.open + s.connects + s.requests - s.closed,
                                !.failureCalls = s.failureCalls, !.pre = PreState,
                                !.rot = [called |-> s.called, reset |-> s.reset,
                                         trace |-> s.trace, pick |-> s.pick,
                                         ret |-> IF s.called THEN s.ret ELSE NULL]]
    /\ UNCHANGED <<config, smb, steps, terminated>>

\* TransportSend with a current host, its failures counted
SendExchange == Exchange(TRUE)

\* a send of a session whose every send fails
FailedSend == Exchange(TRUE) /\ ~last'.ok

\* a send without a current host that comes back as an ordinary failed send
SendNoHost_Returns ==
    /\ ~terminated
    /\ Host = NULL
    /\ failedSends < MaxFailedSends
    /\ failedSends' = failedSends + 1
    /\ last' = [NoCall EXCEPT !.op = "TransportSend", !.failureCalls = 1,
                   !.pre = PreState, !.open = last.open]
    /\ UNCHANGED <<config, smb, steps, ProxyForUrl, Host, Dead, Failures, LookedForProxy, hHttpSession,
                   Connected, terminated, proxyLookups>>

\* TransportSend without a current host: HttpSend exits the process
SendNoHost ==
    /\ ~terminated
    /\ Host = NULL
    /\ CommandExit
    /\ last' = [NoCall EXCEPT !.op = "TransportSend", !.fatal = TRUE, !.pre = PreState,
                   !.open = last.open]
    /\ UNCHANGED <<config, smb, steps, ProxyForUrl, Host, Dead, Failures, LookedForProxy, hHttpSession,
                   Connected, failedSends, proxyLookups>>

\* ------------------------------------------------------------------ Spec
\* the pool after n HostAdd calls: record n is the head, record 1 the tail
Pool(n) == [i \in 1..n |-> i - 1]

\* no pipe call yet
SmbNoCall == [op |-> "none", fault |-> "none", outcome |-> "none", ok |-> FALSE,
              RecvSet |-> FALSE, RecvData |-> <<>>, RecvSize |-> 0,
              preData |-> <<>>, preHandle |-> NULL, preOpen |-> FALSE,
              preConnected |-> FALSE,
              created |-> 0, accepted |-> 0, wrote |-> 0, closed |-> 0,
              prevSend |-> [outcome |-> "none", reuse |-> FALSE]]

\* the pipe transport before its first send: no handle, nothing to read
SmbIdle ==
    /\ Handle = NULL
    /\ HandleOpen = FALSE
    /\ PipeData = <<>>
    /\ smbLast = SmbNoCall

\* ------------------------------------------------- the HttpSend read loop
MaxChunk  == 2    \* sizeof( Buffer ): the most bytes one WinHttpReadData returns
MaxChunks == 3    \* the most chunks of one response
Bytes == {0, 7}

\* the chunks one WinHttpReadData call can return: 1..sizeof( Buffer ) bytes
RECURSIVE SeqsOf(_, _)
SeqsOf(S, n) ==
    IF n = 0 THEN {<<>>}
    ELSE {<<x>> \o t : x \in S, t \in SeqsOf(S, n - 1)}
Chunks == UNION {SeqsOf(Bytes, n) : n \in 1..MaxChunk}

Zeros(n) == [i \in 1..n |-> 0]

\* the loop before HttpSend reaches it: RespBuffer = NULL, RespSize = 0
ReadIdle == [pc |-> "idle", Buffer |-> Zeros(MaxChunk), BufRead |-> 0,
             RespBuffer |-> <<>>, RespSize |-> 0, Successful |-> FALSE,
             returned |-> <<>>, ended |-> "none", RespLength |-> 0,
             RespData |-> <<>>]

\* the callers that may run HostFailure at the same time
Callers == {1, 2}

\* a caller outside HostFailure; calls counts the calls it has made
IdleCaller == [pc |-> "idle", Host |-> NULL, reg |-> 0, ret |-> NULL, calls |-> 0]

\* no HostFailure call in progress
NoCallers == [c \in Callers |-> IdleCaller]

\* no list walk in progress
WalkIdle == [op |-> "none", pc |-> "idle", Host |-> NULL, Head |-> NULL,
             Count |-> 0, passes |-> 0, ret |-> NULL]

StepsIdle ==
    /\ read = ReadIdle
    /\ callers = NoCallers
    /\ walk = WalkIdle

\* NumHosts as the configuration leaves it: the number of HostAdd calls
ConfigNumHosts(n) == n

\* the session after configuration: a pool of live hosts, one of them current
Init ==
    /\ \E n \in 0..MaxHosts :
          /\ Hosts = n
          /\ Next = Pool(n)
          /\ NumHosts = ConfigNumHosts(n)
          /\ Dead = [i \in 1..n |-> FALSE]
          /\ Failures = [i \in 1..n |-> 0]
          /\ Host \in (IF n = 0 THEN {NULL} ELSE 1..n)
    /\ initialHost = Host
    /\ HostMaxRetries \in 0..MaxRetries
    /\ RotationStrategy \in Strategies
    /\ ProxyEnabled \in BOOLEAN
    /\ LookedForProxy = FALSE
    /\ hHttpSession = FALSE
    /\ Connected = FALSE
    /\ terminated = FALSE
    /\ failedSends = 0
    /\ proxyLookups = 0
    /\ SmbIdle
    /\ ProxyForUrl = NULL
    /\ StepsIdle
    /\ last = NoCall

Next_ == SendExchange \/ SendNoHost

Spec == Init /\ [][Next_]_vars

\* the session when no send ever succeeds
NextFail == FailedSend \/ SendNoHost

SpecFail == Init /\ [][NextFail]_vars

\* the same session with its failed sends left uncounted, so that it can go
\* on for ever; the agent's main loop sends again after every failure
FailedSendOn == Exchange(FALSE) /\ ~last'.ok

NextFailOn == FailedSendOn \/ SendNoHost

\* ... configured for unlimited retries
InitUnlimited == Init /\ HostMaxRetries = 0

\* the failed sends of a Round Robin session, the ones that must keep coming
FailedSendRoundRobin ==
    /\ RotationStrategy = TRANSPORT_HTTP_ROTATION_ROUND_ROBIN
    /\ FailedSendOn

SpecFailOn == InitUnlimited /\ [][NextFailOn]_vars /\ WF_vars(FailedSendRoundRobin)

\* --------------------------------------------------------- TransportInit
\* Instance->Session.AgentID as four bytes, low byte first
AgentID == <<1, 1, 0, 0>>

\* the decrypted bodies a server may answer the first package with
Bodies == {<<>>, <<1>>, <<1, 1>>, <<1, 1, 0>>, <<1, 1, 0, 0>>, <<0, 1, 0, 0>>,
           <<1, 1, 0, 0, 1>>}

\* what the heap may hold behind a response buffer of fewer than four bytes
HeapSlack == {<<0, 0, 0>>, <<1, 1, 1>>, <<1, 0, 0>>}

\* DEREF( Data ) as UINT32: the four bytes at Data, whatever the length of
\* the buffer; the bytes behind a shorter buffer are those of the heap
Deref(Data, slack) == SubSeq(Data \o slack, 1, 4)

\* PackageTransmitNow( MetaData, &Data, &Size ): one exchange through HttpSend
PackageTransmitNow(o, r) == HttpSend(o, TRUE, r)

\* TransportInit after the exchange s answered with the decrypted body; the
\* result is the return value and the new Connected
TransportInit(s, body, slack) ==
    LET \* Data is Resp.Buffer, which HttpSend allocates at the first byte read
        DataSet == s.Successful /\ body # <<>>
        Success == /\ s.Successful
                   /\ DataSet
                   /\ AgentID = Deref(body, slack)
    IN  [Success |-> Success,
         Connected |-> IF Success THEN TRUE ELSE s.Connected]

\* the first exchange of a session that is not connected
InitExchange ==
    /\ ~terminated
    /\ ~Connected
    /\ Host # NULL
    /\ \E o \in Outcomes, r \in RandomDraws :
          /\ o = "OpenFail" => ~hHttpSession
          /\ \E s \in {PackageTransmitNow(o, r)} :
              \E body \in (IF s.Successful THEN Bodies ELSE {<<>>}) :
              \E slack \in (IF s.Successful /\ Len(body) \in 1..3
                             THEN HeapSlack ELSE {<<0, 0, 0>>}) :
              \E t \in {TransportInit(s, body, slack)} :
              \E found \in (IF s.lookup = 1 THEN BOOLEAN ELSE {FALSE}) :
              \E P \in {ProxyDiscovery(s.lookup, found)} :
                 /\ ~s.Successful => failedSends < MaxFailedSends
                 /\ ProxyForUrl'    = P
                 /\ hHttpSession'   = s.hHttpSession
                 /\ Connected'      = t.Connected
                 /\ Host'           = s.ret
                 /\ Dead'           = s.Dead
                 /\ Failures'       = s.Failures
                 /\ LookedForProxy' = s.LookedForProxy
                 /\ failedSends'    = IF s.Successful THEN failedSends ELSE failedSends + 1
                 /\ proxyLookups'   = IF s.called THEN 0 ELSE proxyLookups + s.lookup
                 /\ last' = [NoCall EXCEPT !.op = "TransportInit", !.outcome = o,
                                !.ok = t.Success, !.host = Host,
                                !.connects = s.connects, !.requests = s.requests,
                                !.attempts = s.attempts, !.closed = s.closed,
                                !.open = last.open + s.connects + s.requests - s.closed,
                                !.failureCalls = s.failureCalls, !.pre = PreState,
                                !.lookup = s.lookup, !.status = s.status,
                                !.found = found,
                                !.applied = ProxyApplied(s.requests, P),
                                !.Data = body, !.slack = slack,
                                !.preConnected = Connected,
                                !.rot = [called |-> s.called, reset |-> s.reset,
                                         trace |-> s.trace, pick |-> s.pick,
                                         ret |-> IF s.called THEN s.ret ELSE NULL]]
    /\ UNCHANGED <<config, smb, steps, terminated>>

NextInit == InitExchange \/ SendExchange \/ SendNoHost

SpecInit == Init /\ [][NextInit]_vars

\* ---------------------------------------------------------------- SmbSend
\* the handle CreateNamedPipeW returns
PIPE == 1

\* what the pipe does to one SmbSend call
SendOutcomes == {"CreateFail", "AcceptFail", "WriteFailNoData", "WriteFailOther",
                 "Ok"}

\* PipeWrite( Handle, Send ): TRUE when the whole buffer was written
PipeWrite(o) == o = "Ok"

\* NtGetLastError() after a failed PipeWrite
LastError(o) == IF o = "WriteFailNoData" THEN "ERROR_NO_DATA" ELSE "other"

\* the peer-closed branch without the reset of the stored handle
PeerClosed_KeepsHandle ==
    [ok |-> FALSE, Handle |-> Handle, HandleOpen |-> FALSE, Connected |-> FALSE,
     PipeData |-> <<>>, created |-> 0, accepted |-> 0, wrote |-> 1, closed |-> 1]

\* the write on the stored handle failed with ERROR_NO_DATA: the handle is
\* closed and forgotten and the session is disconnected
PeerClosed ==
    [ok |-> FALSE, Handle |-> NULL, HandleOpen |-> FALSE, Connected |-> FALSE,
     PipeData |-> <<>>, created |-> 0, accepted |-> 0, wrote |-> 1,
     closed |-> IF Handle # NULL THEN 1 ELSE 0]

\* SmbSend( Send ) when the pipe answers with outcome o; the result is the
\* return value, the new handle and session state and the calls made
SmbSend(o) ==
    IF Handle = NULL
    THEN IF o = "CreateFail"
         THEN [ok |-> FALSE, Handle |-> NULL, HandleOpen |-> FALSE,
               Connected |-> Connected, PipeData |-> <<>>,
               created |-> 0, accepted |-> 0, wrote |-> 0, closed |-> 0]
         ELSE IF o = "AcceptFail"
         THEN [ok |-> FALSE, Handle |-> PIPE, HandleOpen |-> FALSE,
               Connected |-> Connected, PipeData |-> <<>>,
               created |-> 1, accepted |-> 0, wrote |-> 0, closed |-> 1]
         ELSE [ok |-> PipeWrite(o), Handle |-> PIPE, HandleOpen |-> TRUE,
               Connected |-> Connected, PipeData |-> <<>>,
               created |-> 1, accepted |-> 1, wrote |-> 1, closed |-> 0]
    ELSE IF ~PipeWrite(o) /\ LastError(o) = "ERROR_NO_DATA"
         THEN PeerClosed
         ELSE [ok |-> TRUE, Handle |-> Handle, HandleOpen |-> HandleOpen,
               Connected |-> Connected, PipeData |-> PipeData,
               created |-> 0, accepted |-> 0, wrote |-> 1, closed |-> 0]

\* the outcomes a send can meet: a stored handle skips the creation, and a
\* write on a handle that was closed fails with another error than ERROR_NO_DATA
SendOutcomesNow ==
    IF Handle = NULL THEN SendOutcomes
    ELSE IF HandleOpen THEN {"WriteFailNoData", "WriteFailOther", "Ok"}
    ELSE {"WriteFailOther"}

\* ---------------------------------------------------------------- SmbRecv
\* a UINT32 read from four bytes, low byte first, and back
ToUint32(b) == b[1] + 256 * b[2] + 65536 * b[3] + 16777216 * b[4]
Uint32Bytes(n) == <<n % 256, (n \div 256) % 256, (n \div 65536) % 256,
                    (n \div 16777216) % 256>>

\* the frame of a package: the receiver's id, the length, the payload
Frame(id, P) == id \o Uint32Bytes(Len(P)) \o P

\* another session's AgentID
OtherID == <<0, 1, 0, 0>>

\* what the peer writes in one go: frames for this session with payloads of
\* 0, 1 and 2 bytes, a frame for another session, the head of a frame whose
\* payload is cut short, and fewer bytes than a frame header
PeerChunks == {Frame(AgentID, <<>>), Frame(AgentID, <<7>>), Frame(AgentID, <<7, 9>>),
               Frame(OtherID, <<7>>), SubSeq(Frame(AgentID, <<7, 9>>), 1, 9),
               <<1, 1, 0>>}

\* the step of SmbRecv a fault is injected at
RecvFaults == {"none", "PeekFail", "TagReadFail", "LenReadFail", "BodyReadFail"}

\* a threshold of one UINT32 instead of two
HasFrame_OneField(BytesSize) == BytesSize > 4

\* the test on the byte count PeekNamedPipe reports
HasFrame(BytesSize) == BytesSize > 4 + 4

\* a failure exit that leaves the session connected
RecvFail_StaysConnected(stage, data) ==
    [ok |-> FALSE, stage |-> stage, BufferSet |-> FALSE, Buffer |-> <<>>,
     Length |-> 0, Connected |-> Connected, PipeData |-> data]

\* the failure exits after the peek: Resp is emptied, the session is
\* disconnected; data is what the reads left in the pipe
RecvFail(stage, data) ==
    [ok |-> FALSE, stage |-> stage, BufferSet |-> FALSE, Buffer |-> <<>>,
     Length |-> 0, Connected |-> FALSE, PipeData |-> data]

\* PipeRead( Handle, Resp ): TRUE when Resp->Length bytes were read
PipeRead(f, avail, Length) == f # "BodyReadFail" /\ Len(avail) >= Length

\* SmbRecv( Resp ) with fault f injected; the result is the return value, the
\* step it ended at, Resp, the new Connected and what is left in the pipe
SmbRecv(f) ==
    IF f = "PeekFail" \/ Handle = NULL \/ ~HandleOpen
    THEN [ok |-> FALSE, stage |-> "PeekFail", BufferSet |-> FALSE, Buffer |-> <<>>,
          Length |-> 0, Connected |-> FALSE, PipeData |-> PipeData]
    ELSE IF HasFrame(Len(PipeData))
    THEN IF f = "TagReadFail"
         THEN RecvFail("TagReadFail", PipeData)
         ELSE LET DemonId == ToUint32(SubSeq(PipeData \o <<0, 0, 0, 0>>, 1, 4))
                  rest1   == SubSeq(PipeData, 5, Len(PipeData))
              IN  IF ToUint32(AgentID) # DemonId
                  THEN RecvFail("TagMismatch", rest1)
                  ELSE IF f = "LenReadFail"
                  THEN RecvFail("LenReadFail", rest1)
                  ELSE LET PackageSize == ToUint32(SubSeq(rest1 \o <<0, 0, 0, 0>>, 1, 4))
                           rest2       == SubSeq(rest1, 5, Len(rest1))
                       IN  IF ~PipeRead(f, rest2, PackageSize)
                           THEN RecvFail("BodyReadFail", <<>>)
                           ELSE [ok |-> TRUE, stage |-> "Ok", BufferSet |-> TRUE,
                                 Buffer |-> SubSeq(rest2, 1, PackageSize),
                                 Length |-> PackageSize, Connected |-> Connected,
                                 PipeData |-> SubSeq(rest2, PackageSize + 1, Len(rest2))]
    ELSE [ok |-> TRUE, stage |-> "TooSmall", BufferSet |-> FALSE, Buffer |-> <<>>,
          Length |-> 0, Connected |-> Connected, PipeData |-> PipeData]

\* SMBGetJob( RecvData, RecvSize ) around the SmbRecv result res: what the
\* caller's RecvData and RecvSize hold afterwards
SMBGetJob(res) ==
    IF res.ok
    THEN [ok |-> TRUE, RecvSet |-> res.BufferSet, RecvData |-> res.Buffer,
          RecvSize |-> res.Length]
    ELSE [ok |-> FALSE, RecvSet |-> FALSE, RecvData |-> <<>>, RecvSize |-> 0]

\* ---------------------------------------------------------------- SpecSmb
\* the state a pipe call started from, and the send before it
SmbPre == [SmbNoCall EXCEPT !.preData = PipeData, !.preHandle = Handle,
                            !.preOpen = HandleOpen, !.preConnected = Connected,
                            !.prevSend =
                                IF smbLast.op \in {"TransportSend", "TransportInit"}
                                THEN [outcome |-> smbLast.outcome,
                                      reuse |-> smbLast.preHandle # NULL]
                                ELSE smbLast.prevSend]

\* everything of the HTTP transport, which the pipe calls never touch
http == <<config, Dead, Failures, Host, LookedForProxy, hHttpSession, terminated,
          failedSends, proxyLookups, ProxyForUrl, steps, last>>

\* the HTTP session, which the loops followed step by step leave alone
http_ == <<Dead, Failures, Host, LookedForProxy, hHttpSession, Connected,
           terminated, failedSends, proxyLookups, ProxyForUrl, last>>

\* TransportSend over the pipe: one SmbSend( &Send )
SmbTransportSend ==
    /\ \E o \in SendOutcomesNow :
       \E s \in {SmbSend(o)} :
          /\ Handle'     = s.Handle
          /\ HandleOpen' = s.HandleOpen
          /\ Connected'  = s.Connected
          /\ PipeData'   = s.PipeData
          /\ smbLast' = [SmbPre EXCEPT !.op = "TransportSend", !.outcome = o,
                            !.ok = s.ok, !.created = s.created,
                            !.accepted = s.accepted, !.wrote = s.wrote,
                            !.closed = s.closed]
    /\ UNCHANGED http

\* TransportInit over the pipe: PackageTransmitNow( MetaData, NULL, NULL ),
\* one SmbSend, whose success alone connects the session
SmbTransportInit ==
    /\ ~Connected
    /\ \E o \in SendOutcomesNow :
       \E s \in {SmbSend(o)} :
          /\ Handle'     = s.Handle
          /\ HandleOpen' = s.HandleOpen
          /\ Connected'  = IF s.ok THEN TRUE ELSE s.Connected
          /\ PipeData'   = s.PipeData
          /\ smbLast' = [SmbPre EXCEPT !.op = "TransportInit", !.outcome = o,
                            !.ok = s.ok, !.created = s.created,
                            !.accepted = s.accepted, !.wrote = s.wrote,
                            !.closed = s.closed]
    /\ UNCHANGED http

\* SMBGetJob: one SmbRecv( &Resp ); a fault is injected only at a step the
\* call gets to
SmbGetJob ==
    /\ \E f \in RecvFaults :
       \E res \in {SmbRecv(f)} :
       \E job \in {SMBGetJob(res)} :
          /\ f # "none" => res.stage = f
          /\ Connected' = res.Connected
          /\ PipeData'  = res.PipeData
          /\ smbLast' = [SmbPre EXCEPT !.op = "SMBGetJob", !.fault = f,
                            !.outcome = res.stage, !.ok = job.ok,
                            !.RecvSet = job.RecvSet, !.RecvData = job.RecvData,
                            !.RecvSize = job.RecvSize]
    /\ UNCHANGED <<http, Handle, HandleOpen>>

\* the peer at the other end of the open pipe writes
PeerWrite ==
    /\ Handle # NULL
    /\ HandleOpen
    /\ \E c \in PeerChunks :
          /\ Len(PipeData) + Len(c) <= MaxPipeBytes
          /\ PipeData' = PipeData \o c
    /\ smbLast' = [SmbPre EXCEPT !.op = "PeerWrite"]
    /\ UNCHANGED <<http, Handle, HandleOpen, Connected>>

\* a session configured for the pipe transport: no hosts, no HTTP state
InitSmb ==
    /\ Hosts = NULL
    /\ Next = Pool(0)
    /\ NumHosts = ConfigNumHosts(0)
    /\ Dead = <<>>
    /\ Failures = <<>>
    /\ Host = NULL
    /\ initialHost = NULL
    /\ HostMaxRetries = 0
    /\ RotationStrategy = TRANSPORT_HTTP_ROTATION_ROUND_ROBIN
    /\ ProxyEnabled = FALSE
    /\ LookedForProxy = FALSE
    /\ hHttpSession = FALSE
    /\ Connected = FALSE
    /\ terminated = FALSE
    /\ failedSends = 0
    /\ proxyLookups = 0
    /\ SmbIdle
    /\ ProxyForUrl = NULL
    /\ StepsIdle
    /\ last = NoCall

NextSmb == SmbTransportSend \/ SmbTransportInit \/ SmbGetJob \/ PeerWrite

SpecSmb == InitSmb /\ [][NextSmb]_vars

\* ------------------------------------------------------------ SpecRotate
\* HostRotation as a function of the pool state and the current host: Init
\* draws a pool in any state HostFailure can leave it in and any current host
\* (a record or NULL); the action is one call of HostRotation.
CallHostRotation ==
    /\ ~terminated
    /\ \E S \in Strategies, r \in RandVals :
          /\ S = TRANSPORT_HTTP_ROTATION_RANDOM => HostCount # 0
          /\ \E o \in {HostRotation(S, Dead, Failures, LookedForProxy, r)} :
                 /\ Dead'           = o.Dead
                 /\ Failures'       = o.Failures
                 /\ LookedForProxy' = o.LookedForProxy
                 /\ proxyLookups'   = 0
                 /\ last' = [NoCall EXCEPT !.op = "HostRotation", !.strategy = S,
                                !.host = Host, !.pre = PreState,
                                !.rot = [called |-> TRUE, reset |-> o.reset,
                                         trace |-> o.trace, pick |-> o.pick,
                                         ret |-> o.ret]]
    /\ UNCHANGED <<config, smb, steps, ProxyForUrl, Host, hHttpSession, Connected, terminated, failedSends>>

\* HostRandom on the empty pool divides by HostCount() = 0: the process faults
CallHostRandomEmpty ==
    /\ ~terminated
    /\ HostCount = 0
    /\ terminated' = TRUE
    /\ last' = [NoCall EXCEPT !.op = "HostRotation",
                   !.strategy = TRANSPORT_HTTP_ROTATION_RANDOM, !.fatal = TRUE,
                   !.host = Host, !.pre = PreState]
    /\ UNCHANGED <<config, smb, steps, ProxyForUrl, Host, Dead, Failures, LookedForProxy, hHttpSession,
                   Connected, failedSends, proxyLookups>>

\* one call of HostRandom on its own.  On the empty pool the remainder
\* RandomNumber32() % HostCount() is a division by zero: the process faults
\* where the division traps, and where it does not the walk ends at once on
\* the NULL head.
CallHostRandom ==
    /\ ~terminated
    /\ \E r \in RandVals :
          IF HostCount = 0
          THEN \E fault \in BOOLEAN :
                  /\ terminated' = fault
                  /\ last' = [NoCall EXCEPT !.op = "HostRandom", !.fatal = fault,
                                 !.host = Host, !.pre = PreState, !.r = r]
          ELSE /\ terminated' = terminated
               /\ last' = [NoCall EXCEPT !.op = "HostRandom", !.host = Host,
                              !.pre = PreState, !.r = r,
                              !.rot = [NoRotation EXCEPT !.ret = HostRandom(r),
                                                         !.pick = HostRandom(r)]]
    /\ UNCHANGED <<config, smb, steps, ProxyForUrl, Host, Dead, Failures, LookedForProxy, hHttpSession,
                   Connected, failedSends, proxyLookups>>

InitRotate ==
    /\ HostMaxRetries \in 0..MaxRetries
    /\ \E n \in 0..MaxHosts :
          /\ Hosts = n
          /\ Next = Pool(n)
          /\ NumHosts = ConfigNumHosts(n)
          /\ Dead \in [1..n -> BOOLEAN]
          /\ Failures \in [1..n -> 0..HostMaxRetries]
          /\ \A i \in 1..n : Dead[i] => Failures[i] = HostMaxRetries
          /\ Host \in 0..n
    /\ initialHost = Host
    /\ RotationStrategy = TRANSPORT_HTTP_ROTATION_ROUND_ROBIN
    /\ ProxyEnabled = FALSE
    /\ LookedForProxy \in BOOLEAN
    /\ hHttpSession = FALSE
    /\ Connected = FALSE
    /\ terminated = FALSE
    /\ failedSends = 0
    /\ proxyLookups \in {0} \cup {IF LookedForProxy THEN 1 ELSE 0}
    /\ SmbIdle
    /\ ProxyForUrl = NULL
    /\ StepsIdle
    /\ last = NoCall

NextRotate == CallHostRotation \/ CallHostRandomEmpty \/ CallHostRandom

SpecRotate == InitRotate /\ [][NextRotate]_vars

\* ------------------------------------------- the read loop, step by step
\* LocalAlloc( LPTR, n ): a zeroed block of n bytes; the empty block stands
\* for NULL
LocalAlloc(n) == Zeros(n)

\* LocalReAlloc( buf, n, LMEM_MOVEABLE | LMEM_ZEROINIT ): the block with its
\* contents kept and the bytes it grows by zeroed
LocalReAlloc(buf, n) == [i \in 1..n |-> IF i <= Len(buf) THEN buf[i] ELSE 0]

\* MemCopy( dst + off, src, n )
MemCopy(dst, off, src, n) ==
    [i \in 1..Len(dst) |-> IF i > off /\ i <= off + n THEN src[i - off] ELSE dst[i]]

\* a copy of every chunk to the start of the response
CopyOffset_Start(RespSize, BufRead) == 0

\* RespSize - BufRead: where in RespBuffer the chunk just read goes, RespSize
\* being the size after the chunk was added
CopyOffset(RespSize, BufRead) == RespSize - BufRead

\* WinHttpReadData( Request, Buffer, sizeof( Buffer ), &BufRead ) returning
\* the chunk c: the chunk is at the start of Buffer
ReadInto(Buffer, c) == [i \in 1..Len(Buffer) |-> IF i <= Len(c) THEN c[i] ELSE Buffer[i]]

\* HttpSend got a 200 and has a Resp: it enters the loop with no response yet
ReadStart ==
    /\ read.pc = "idle"
    /\ read' = [read EXCEPT !.pc = "loop", !.RespBuffer = <<>>]
    /\ UNCHANGED <<config, smb, http_, callers, walk>>

\* one pass of the loop in which WinHttpReadData returns a chunk
ReadChunk ==
    /\ read.pc = "loop"
    /\ Len(read.returned) < MaxChunks
    /\ \E c \in Chunks :
          LET Buffer     == ReadInto(read.Buffer, c)
              BufRead    == Len(c)
              grown      == IF read.RespBuffer = <<>>
                            THEN LocalAlloc(BufRead)
                            ELSE LocalReAlloc(read.RespBuffer, read.RespSize + BufRead)
              RespSize   == read.RespSize + BufRead
              RespBuffer == MemCopy(grown, CopyOffset(RespSize, BufRead), Buffer, BufRead)
          IN  read' = [read EXCEPT !.Buffer = Zeros(MaxChunk), !.BufRead = BufRead,
                          !.RespBuffer = RespBuffer, !.RespSize = RespSize,
                          !.Successful = TRUE, !.returned = Append(@, c)]
    /\ UNCHANGED <<config, smb, http_, callers, walk>>

\* the pass that ends the loop: WinHttpReadData fails, or returns no bytes
ReadBreak ==
    /\ read.pc = "loop"
    /\ \E e \in {"error", "zero"} :
          read' = [read EXCEPT !.pc = "after", !.ended = e,
                      !.Successful = (e = "zero"),
                      !.BufRead = IF e = "zero" THEN 0 ELSE @]
    /\ UNCHANGED <<config, smb, http_, callers, walk>>

\* after the loop: the response is handed back and the send is a success
ReadReturn ==
    /\ read.pc = "after"
    /\ read' = [read EXCEPT !.pc = "done", !.RespLength = read.RespSize,
                    !.RespData = read.RespBuffer, !.Successful = TRUE]
    /\ UNCHANGED <<config, smb, http_, callers, walk>>

\* a session with one host, which is all the loop needs
InitRead ==
    /\ Init
    /\ Hosts = 1
    /\ HostMaxRetries = 0
    /\ RotationStrategy = TRANSPORT_HTTP_ROTATION_ROUND_ROBIN
    /\ ~ProxyEnabled

NextRead == ReadStart \/ ReadChunk \/ ReadBreak \/ ReadReturn

SpecRead == InitRead /\ [][NextRead]_vars

\* ------------------------------------------- HostFailure, step by step
\* HostFailure calls followed: enough to bring a host to its limit, pass it
\* with two calls at once and call twice more
MaxCalls == HostMaxRetries + 3

\* a limit test that also fires above the limit
LimitReached_AtLeast(h) == Failures[h] >= HostMaxRetries

\* Host->Failures == Instance->Config.Transport.HostMaxRetries
LimitReached(h) == Failures[h] = HostMaxRetries

CallsMade == callers[1].calls + callers[2].calls

\* a caller's send failed: it calls HostFailure( Instance->Config.Transport.Host )
FailureEnter(c) ==
    /\ callers[c].pc = "idle"
    /\ CallsMade < MaxCalls
    /\ callers' = [callers EXCEPT ![c] = [IdleCaller EXCEPT !.pc = "test", !.Host = Host,
                                                          !.calls = callers[c].calls + 1]]
    /\ UNCHANGED <<config, smb, http_, read, walk>>

\* the tests at the head of HostFailure: no host, or the host at its limit;
\* the counter read for the limit test is kept in a register
FailureTest(c) ==
    /\ callers[c].pc = "test"
    /\ LET h == callers[c].Host
       IN  callers' = [callers EXCEPT ![c] =
               IF h = NULL THEN [@ EXCEPT !.pc = "return", !.ret = NULL]
               ELSE IF LimitReached(h) THEN [@ EXCEPT !.pc = "mark"]
               ELSE [@ EXCEPT !.pc = "load", !.reg = Failures[h]]]
    /\ UNCHANGED <<config, smb, http_, read, walk>>

\* Host->Failures++, first half: the increment starts from the counter as it
\* is now, or from the value already read for the limit test
FailureLoad(c) ==
    /\ callers[c].pc = "load"
    /\ \E v \in {callers[c].reg, Failures[callers[c].Host]} :
          callers' = [callers EXCEPT ![c] = [@ EXCEPT !.pc = "store", !.reg = v]]
    /\ UNCHANGED <<config, smb, http_, read, walk>>

\* Host->Failures++, second half, and return Host
FailureStore(c) ==
    /\ callers[c].pc = "store"
    /\ Failures' = [Failures EXCEPT ![callers[c].Host] = callers[c].reg + 1]
    /\ callers' = [callers EXCEPT ![c] = [@ EXCEPT !.pc = "return", !.ret = callers[c].Host]]
    /\ UNCHANGED <<config, smb, read, walk, Dead, Host, LookedForProxy, hHttpSession,
                   Connected, terminated, failedSends, proxyLookups, ProxyForUrl, last>>

\* the limit test fired: Host->Dead = TRUE; return HostRotation( ... )
FailureMark(c) ==
    /\ callers[c].pc = "mark"
    /\ \E r \in (IF RotationStrategy = TRANSPORT_HTTP_ROTATION_RANDOM
                  THEN RandVals ELSE {0}) :
       \E s \in {HostRotation(RotationStrategy, [Dead EXCEPT ![callers[c].Host] = TRUE],
                               Failures, LookedForProxy, r)} :
          /\ Dead' = s.Dead
          /\ Failures' = s.Failures
          /\ LookedForProxy' = s.LookedForProxy
          /\ callers' = [callers EXCEPT ![c] = [@ EXCEPT !.pc = "return", !.ret = s.ret]]
    /\ UNCHANGED <<config, smb, read, walk, Host, hHttpSession, Connected, terminated,
                   failedSends, proxyLookups, ProxyForUrl, last>>

\* back in HttpSend: Instance->Config.Transport.Host = the host returned
FailureReturn(c) ==
    /\ callers[c].pc = "return"
    /\ Host' = callers[c].ret
    /\ callers' = [callers EXCEPT ![c] = [@ EXCEPT !.pc = "idle"]]
    /\ UNCHANGED <<config, smb, read, walk, Dead, Failures, LookedForProxy, hHttpSession,
                   Connected, terminated, failedSends, proxyLookups, ProxyForUrl, last>>

NextRace ==
    \E c \in Callers :
        \/ FailureEnter(c)
        \/ FailureTest(c)
        \/ FailureLoad(c)
        \/ FailureStore(c)
        \/ FailureMark(c)
        \/ FailureReturn(c)

SpecRace == Init /\ [][NextRace]_vars

\* ------------------------------------------------ the list walks, step by step
\* what HostAdd and the walks leave alone
walkFrame == <<HostMaxRetries, RotationStrategy, ProxyEnabled, initialHost, smb,
               LookedForProxy, hHttpSession, Connected, terminated, failedSends,
               proxyLookups, ProxyForUrl, last, read, callers>>

\* HostData->Next = Instance->Config.Transport.Hosts
NewLink == Hosts

\* HostAdd: a new record, alive, linked in front of the list
HostAddCall ==
    /\ walk.pc = "idle"
    /\ Len(Next) < MaxHosts
    /\ LET HostData == Len(Next) + 1
       IN  /\ Next' = Append(Next, NewLink)
           /\ Dead' = Append(Dead, FALSE)
           /\ Failures' = Append(Failures, 0)
           /\ Hosts' = HostData
           /\ NumHosts' = ConfigNumHosts(HostData)
    /\ UNCHANGED <<walkFrame, Host, walk>>

\* HostFailure gives up a record: Host->Dead = TRUE
MarkDead ==
    /\ walk.pc = "idle"
    /\ \E h \in DOMAIN Dead :
          /\ ~Dead[h]
          /\ Dead' = [Dead EXCEPT ![h] = TRUE]
    /\ UNCHANGED <<walkFrame, Hosts, Next, NumHosts, Failures, Host, walk>>

\* HostCount, HostCheckup or HostRotation( RoundRobin ) is called and reaches
\* its loop; HostRotation without a current host returns the head at once
WalkCall ==
    /\ walk.pc = "idle"
    /\ \E op \in {"HostCount", "HostCheckup", "HostRotation"} :
          walk' = IF op = "HostRotation" /\ Host = NULL
                  THEN [WalkIdle EXCEPT !.op = op, !.pc = "return", !.ret = Hosts]
                  ELSE [WalkIdle EXCEPT !.op = op, !.pc = "loop", !.Host = Hosts,
                                        !.Head = Hosts]
    /\ UNCHANGED <<walkFrame, Hosts, Next, NumHosts, Dead, Failures, Host>>

\* one pass of the do-while of HostCount and of HostCheckup, which counts
\* the records, or the dead ones, up to the end of the list or back at the head
CountPass ==
    /\ walk.pc = "loop"
    /\ walk.op \in {"HostCount", "HostCheckup"}
    /\ walk' =
          IF walk.Host = NULL
          THEN [walk EXCEPT !.pc = "after", !.passes = @ + 1]
          ELSE [walk EXCEPT
                   !.Count = IF walk.op = "HostCount" \/ Dead[walk.Host]
                             THEN @ + 1 ELSE @,
                   !.Host = Next[walk.Host],
                   !.passes = @ + 1,
                   !.pc = IF Next[walk.Host] = walk.Head THEN "after" ELSE "loop"]
    /\ UNCHANGED <<walkFrame, Hosts, Next, NumHosts, Dead, Failures, Host>>

\* after the loop: HostCount returns Count, HostCheckup returns whether
\* HostCount() differs from the number of dead records
CountReturn ==
    /\ walk.pc = "after"
    /\ walk' = [walk EXCEPT !.pc = "return",
                    !.ret = IF walk.op = "HostCount" THEN walk.Count
                            ELSE IF HostCount = walk.Count THEN 0 ELSE 1]
    /\ UNCHANGED <<walkFrame, Hosts, Next, NumHosts, Dead, Failures, Host>>

\* a scan that stays on the dead record
ScanAdvance_Stays(h) == h

\* Host = Host->Next
ScanAdvance(h) == Next[h]

\* one pass of the RoundRobin loop: Count, which is never advanced, against
\* HostCount(), then the end of the list, then the Dead flag
ScanPass ==
    /\ walk.pc = "loop"
    /\ walk.op = "HostRotation"
    /\ walk' =
          IF ~(walk.Count < HostCount) THEN [walk EXCEPT !.pc = "tail"]
          ELSE IF walk.Host = NULL THEN [walk EXCEPT !.pc = "tail", !.passes = @ + 1]
          ELSE IF Dead[walk.Host]
          THEN [walk EXCEPT !.Host = ScanAdvance(walk.Host), !.passes = @ + 1]
          ELSE [walk EXCEPT !.pc = "tail", !.passes = @ + 1]
    /\ UNCHANGED <<walkFrame, Hosts, Next, NumHosts, Dead, Failures, Host>>

\* after the scan: with unlimited retries and no live record the reset walk
\* starts at the head, otherwise the record found is returned
ScanTail ==
    /\ walk.pc = "tail"
    /\ walk' = IF HostMaxRetries = 0 /\ walk.Host = NULL
               THEN [walk EXCEPT !.pc = "reset", !.Host = Hosts, !.passes = 0]
               ELSE [walk EXCEPT !.pc = "return", !.ret = walk.Host]
    /\ UNCHANGED <<walkFrame, Hosts, Next, NumHosts, Dead, Failures, Host>>

\* one pass of the reset walk: the record is cleared, or the list is over
\* and the head is returned
ResetPass ==
    /\ walk.pc = "reset"
    /\ IF walk.Host = NULL
       THEN /\ walk' = [walk EXCEPT !.pc = "return", !.ret = Hosts, !.passes = @ + 1]
            /\ UNCHANGED <<Dead, Failures>>
       ELSE /\ Failures' = [Failures EXCEPT ![walk.Host] = 0]
            /\ Dead' = [Dead EXCEPT ![walk.Host] = FALSE]
            /\ walk' = [walk EXCEPT !.Host = Next[walk.Host], !.passes = @ + 1]
    /\ UNCHANGED <<walkFrame, Hosts, Next, NumHosts, Host>>

\* the call returns; the host HostRotation returns becomes the current host
WalkReturn ==
    /\ walk.pc = "return"
    /\ Host' = IF walk.op = "HostRotation" THEN walk.ret ELSE Host
    /\ walk' = [WalkIdle EXCEPT !.op = walk.op, !.ret = walk.ret]
    /\ UNCHANGED <<walkFrame, Hosts, Next, NumHosts, Dead, Failures>>

\* the steps of a call in progress
WalkRun == CountPass \/ CountReturn \/ ScanPass \/ ScanTail \/ ResetPass \/ WalkReturn

\* before the first HostAdd: no record
InitWalk ==
    /\ Hosts = NULL
    /\ Next = Pool(0)
    /\ NumHosts = ConfigNumHosts(0)
    /\ Dead = <<>>
    /\ Failures = <<>>
    /\ Host = NULL
    /\ initialHost = NULL
    /\ HostMaxRetries \in 0..MaxRetries
    /\ RotationStrategy = TRANSPORT_HTTP_ROTATION_ROUND_ROBIN
    /\ ProxyEnabled = FALSE
    /\ LookedForProxy = FALSE
    /\ hHttpSession = FALSE
    /\ Connected = FALSE
    /\ terminated = FALSE
    /\ failedSends = 0
    /\ proxyLookups = 0
    /\ SmbIdle
    /\ ProxyForUrl = NULL
    /\ StepsIdle
    /\ last = NoCall

NextWalk ==
    \/ HostAddCall
    \/ MarkDead
    \/ WalkCall
    \/ CountPass
    \/ CountReturn
    \/ ScanPass
    \/ ScanTail
    \/ ResetPass
    \/ WalkReturn

\* a call that has started goes on running
SpecWalk == InitWalk /\ [][NextWalk]_vars /\ WF_vars(WalkRun)

\* ================================================================ claims
PoolRecords  == Range(ListFrom(Hosts))
AllDead      == \A h \in PoolRecords : Dead[h]
IsSend       == last.op = "TransportSend"
IsRotation   == last.op = "HostRotation" /\ ~last.fatal

\* the HostFailure calls a record has received, read off its state
FailureCallsOf(h) == Failures[h] + (IF Dead[h] THEN 1 ELSE 0)

RECURSIVE FailureCallsIn(_)
FailureCallsIn(S) ==
    IF S = {} THEN 0
    ELSE LET x == CHOOSE y \in S : TRUE
         IN  FailureCallsOf(x) + FailureCallsIn(S \ {x})

\* C1: with HostMaxRetries = M >= 1 a failed send on a host below its limit
\* adds exactly one to its Failures, leaves it alive and current; a failed send
\* on a host at its limit (its (M+1)-th failure) marks it dead and makes the
\* rotation result current.  No host ever has Failures > M, and no host is
\* dead with Failures < M.
C1_FailureAccounting ==
    /\ [](\A h \in Records : /\ Failures[h] <= HostMaxRetries
                              /\ Dead[h] => Failures[h] >= HostMaxRetries)
    /\ [](HostMaxRetries >= 1 => failedSends = FailureCallsIn(Records))
    /\ [][(HostMaxRetries >= 1 /\ failedSends' = failedSends + 1) =>
            IF Failures[Host] < HostMaxRetries
            THEN /\ Failures' = [Failures EXCEPT ![Host] = @ + 1]
                 /\ Dead' = Dead /\ ~Dead'[Host]
                 /\ Host' = Host
                 /\ ~last'.rot.called
            ELSE /\ FailureCallsOf(Host) = HostMaxRetries
                 /\ Dead'[Host]
                 /\ last'.rot.called
                 /\ Host' = last'.rot.ret]_vars

\* a host was marked dead by its third failure under HostMaxRetries = 2
C1_Witness ==
    /\ HostMaxRetries = 2
    /\ IsSend /\ last.rot.called
    /\ last.host # NULL /\ Dead[last.host] /\ Failures[last.host] = 2
    /\ failedSends = 3

\* C2: the current host is NULL or a record whose Dead flag is false
C2_CurrentHostAlive == Host = NULL \/ ~Dead[Host]

\* the unlimited-mode reset has just handed back the head
C2_Witness ==
    /\ IsSend /\ last.rot.called /\ last.rot.reset
    /\ Host = Hosts /\ Host # NULL
    /\ NumHosts >= 2

FirstLiveAfter(h, D) == RoundRobinScan(Next[h], D)

\* C4 as claimed: in a pool of three or more records the Round Robin scan of a
\* rotation returns the first live record after the current host in link
\* order (none: NULL, or the head after the reset in unlimited mode)
C4_Original ==
    (/\ IsSend /\ last.rot.called
     /\ TRANSPORT_HTTP_ROTATION_ROUND_ROBIN \in Range(last.rot.trace)
     /\ HostCount >= 3)
    => LET D == [last.pre.Dead EXCEPT ![last.host] = TRUE]
           s == FirstLiveAfter(last.host, D)
       IN  last.rot.ret = (IF s # NULL THEN s
                           ELSE IF HostMaxRetries = 0 THEN Hosts ELSE NULL)

\* C5: when HostRotation(Random) draws a dead record, the host returned, the
\* Failures and Dead of every record and LookedForProxy are what
\* HostRotation(Round Robin) gives from the same state, and the strategies
\* entered are Random, then Round Robin, and no more
C5_RandomFallsBack ==
    (/\ IsRotation
     /\ last.strategy = TRANSPORT_HTTP_ROTATION_RANDOM
     /\ last.rot.pick # NULL /\ last.pre.Dead[last.rot.pick])
    => LET rr == HostRotation(TRANSPORT_HTTP_ROTATION_ROUND_ROBIN, last.pre.Dead,
                              last.pre.Failures, last.pre.LookedForProxy, 0)
       IN  /\ last.rot.ret = rr.ret
           /\ Dead = rr.Dead
           /\ Failures = rr.Failures
           /\ LookedForProxy = rr.LookedForProxy
           /\ last.rot.trace = <<TRANSPORT_HTTP_ROTATION_RANDOM,
                                 TRANSPORT_HTTP_ROTATION_ROUND_ROBIN>>

\* Random drew a dead record that is not the head while the head was alive
C5_Witness ==
    /\ IsRotation
    /\ last.strategy = TRANSPORT_HTTP_ROTATION_RANDOM
    /\ last.host # NULL
    /\ last.rot.pick # NULL /\ last.pre.Dead[last.rot.pick]
    /\ last.rot.pick # Hosts /\ last.rot.ret = Hosts

\* C6: with HostMaxRetries = 0, a rotation that finds every record dead leaves
\* every record with Failures = 0 and Dead = FALSE and returns the head, under
\* both strategies and every time the pool runs dead again
C6_UnlimitedReset ==
    (/\ IsSend /\ last.rot.called
     /\ HostMaxRetries = 0
     /\ \A h \in PoolRecords \ {last.host} : last.pre.Dead[h])
    => /\ \A h \in PoolRecords : Failures[h] = 0 /\ ~Dead[h]
       /\ last.rot.ret = Hosts
       /\ Host = Hosts
       /\ last.rot.reset

\* a pool of two or more has been reset and has run dead and been reset again
C6_Witness ==
    /\ IsSend /\ last.rot.called /\ last.rot.reset
    /\ HostMaxRetries = 0
    /\ NumHosts >= 2
    /\ failedSends >= 2 * NumHosts
    /\ \A h \in PoolRecords : Failures[h] = 0 /\ ~Dead[h]

\* C7: with HostMaxRetries = 0 and a current host to start with, the current
\* host is never NULL and the process never exits for want of a host
C7_UnlimitedNeverExhausted ==
    (HostMaxRetries = 0 /\ initialHost # NULL)
    => (Host # NULL /\ ~terminated /\ ~last.fatal)

\* every allowed send has failed in unlimited mode
C7_Witness ==
    /\ HostMaxRetries = 0
    /\ failedSends = MaxFailedSends
    /\ Host # NULL

\* C8: with HostMaxRetries >= 1, once the last live record is marked dead the
\* current host is NULL; no step clears a Dead flag or makes a NULL current
\* host a record again
C8_BoundedExhaustion ==
    /\ []((HostMaxRetries >= 1 /\ AllDead) => Host = NULL)
    /\ []((HostMaxRetries >= 1 /\ IsSend /\ last.rot.called /\ AllDead)
              => last.rot.ret = NULL)
    /\ [][HostMaxRetries >= 1 =>
            /\ \A h \in Records : Dead[h] => Dead'[h]
            /\ Host = NULL => Host' = NULL]_vars

\* a pool of two or more was exhausted under Random and a send followed
C8_Witness ==
    /\ HostMaxRetries >= 1
    /\ RotationStrategy = TRANSPORT_HTTP_ROTATION_RANDOM
    /\ NumHosts >= 2
    /\ AllDead /\ Host = NULL
    /\ terminated

\* C9: a send makes at most one request; a send that fails applies HostFailure
\* once to the host that was current and stores the result as the current
\* host; a send that succeeds leaves the pool and the current host alone.
\* With two hosts, Round Robin and HostMaxRetries = 1, after two failed sends
\* the first current host is dead and the other one is current.
C9_OneAccountingPerFailedSend ==
    /\ [][last'.op = "TransportSend" =>
            /\ last'.attempts <= 1
            /\ failedSends' = failedSends + 1 =>
                  /\ ~last'.ok /\ last'.failureCalls = 1 /\ last'.host = Host
                  /\ \E r \in RandVals :
                        \E f \in {HostFailure(Host, LookedForProxy, r)} :
                            Host' = f.ret /\ Dead' = f.Dead /\ Failures' = f.Failures
            /\ failedSends' = failedSends =>
                  /\ last'.ok \/ last'.fatal
                  /\ last'.failureCalls = 0
                  /\ UNCHANGED <<Host, Dead, Failures>>]_vars
    /\ []((/\ NumHosts = 2
            /\ RotationStrategy = TRANSPORT_HTTP_ROTATION_ROUND_ROBIN
            /\ HostMaxRetries = 1
            /\ failedSends = 2)
           => (Host # NULL /\ Host # initialHost /\ ~Dead[Host] /\ Dead[initialHost]))

\* the two-host scenario after its second failed send, with a successful send
\* in between
C9_Witness ==
    /\ NumHosts = 2
    /\ RotationStrategy = TRANSPORT_HTTP_ROTATION_ROUND_ROBIN
    /\ HostMaxRetries = 1
    /\ failedSends = 2
    /\ hHttpSession
    /\ IsSend /\ ~last.ok /\ last.failureCalls = 1
    /\ Host # initialHost /\ Dead[initialHost]

\* C10: a send started without a current host exits the process before any
\* connection or request is opened; it is not counted as a failed send and
\* changes no record.  With HostMaxRetries >= 1 this is what the first send
\* after the pool is exhausted does.
C10_NoHostIsFatal ==
    /\ [][(Host = NULL /\ ~terminated) =>
            /\ terminated'
            /\ last'.op = "TransportSend" /\ last'.fatal /\ ~last'.ok
            /\ last'.connects = 0 /\ last'.requests = 0 /\ last'.attempts = 0
            /\ last'.failureCalls = 0
            /\ UNCHANGED <<failedSends, Host, Dead, Failures, hHttpSession>>]_vars
    /\ [][(HostMaxRetries >= 1 /\ Hosts # NULL /\ AllDead /\ ~terminated)
            => (terminated' /\ last'.fatal)]_vars
    /\ []((IsSend /\ last.fatal) => (last.host = NULL /\ terminated))

\* the send after the exhaustion of a bounded pool
C10_Witness ==
    /\ HostMaxRetries >= 1
    /\ Hosts # NULL /\ AllDead
    /\ failedSends = NumHosts * (HostMaxRetries + 1)
    /\ IsSend /\ last.fatal /\ terminated

\* C11: HostRotation sets LookedForProxy to FALSE exactly when the pool holds
\* more than one record (HostCount > 1); on a pool of one record (or none) it
\* leaves LookedForProxy as it was.  This holds for both strategies and
\* whether or not a live host is found.
C11_ProxyInvalidation ==
    IsRotation =>
        LookedForProxy = (IF HostCount > 1 THEN FALSE ELSE last.pre.LookedForProxy)

\* a Random rotation over several records, none of them alive, clears a set flag
C11_Witness ==
    /\ IsRotation
    /\ last.strategy = TRANSPORT_HTTP_ROTATION_RANDOM
    /\ HostCount > 1
    /\ last.pre.LookedForProxy
    /\ ~LookedForProxy
    /\ last.rot.ret = NULL

\* C12: without a configured proxy the proxy lookup is made at most once
\* between two consecutive rotations (and at most once before the first),
\* whether it found a proxy or not: a send makes a lookup only if none was
\* made since the latest rotation.  With a configured proxy no send makes one.
C12_OneLookupPerRotation ==
    /\ proxyLookups <= 1
    /\ ProxyEnabled => proxyLookups = 0 /\ last.lookup = 0
    /\ (IsSend /\ last.lookup = 1) => (~ProxyEnabled /\ last.pre.proxyLookups = 0)

\* a send that looks the proxy up again after an earlier rotation cleared the flag
C12_Witness ==
    /\ IsSend
    /\ ~ProxyEnabled
    /\ last.lookup = 1
    /\ ~last.rot.called
    /\ \E h \in PoolRecords : Dead[h]
    /\ proxyLookups = 1

\* C13: a send returns TRUE only if the request was sent, the response was
\* received and the status is 200; for any other status, and when sending or
\* receiving the response fails, it returns FALSE, the caller's RecvData is
\* not written, and HostFailure is called.
C13_SuccessOnly200 ==
    (IsSend /\ ~last.fatal) =>
        /\ last.ok => /\ Sent(last.outcome)
                      /\ Received(last.outcome)
                      /\ last.outcome # "QueryFail"
                      /\ ReplyStatus(last.outcome) = HTTP_STATUS_OK
        /\ (\/ (Sent(last.outcome) /\ ~Received(last.outcome))
            \/ (last.requests = 1 /\ ~Sent(last.outcome))
            \/ (Received(last.outcome) /\ last.outcome = "QueryFail")
            \/ (Received(last.outcome) /\ ReplyStatus(last.outcome) # HTTP_STATUS_OK))
           => /\ ~last.ok
              /\ last.RecvData = "unset"
              /\ last.failureCalls = 1
              /\ \/ Failures[last.host] = last.pre.Failures[last.host] + 1
                 \/ last.rot.called

\* a response with another status: the send fails and the host is charged
C13_Witness ==
    /\ IsSend
    /\ Received(last.outcome)
    /\ ReplyStatus(last.outcome) # HTTP_STATUS_OK
    /\ last.status = ReplyStatus(last.outcome)
    /\ ~last.ok
    /\ last.RecvData = "unset"
    /\ Failures[last.host] = last.pre.Failures[last.host] + 1

\* C14: TransportInit of the request/response transport sets Connected and
\* returns TRUE if and only if the exchange succeeded and the identity at the
\* start of the decrypted response equals AgentID; in every other case it
\* returns FALSE and leaves Connected as it was.
C14_Original ==
    last.op = "TransportInit" =>
        LET identified == /\ last.outcome = "Ok"
                          /\ Len(last.Data) >= 4
                          /\ SubSeq(last.Data, 1, 4) = AgentID
        IN  /\ last.ok <=> identified
            /\ last.ok => Connected
            /\ ~last.ok => Connected = last.preConnected

\* C15: HostRandom on an empty pool returns NULL, without a fault and without
\* a change of state; on a pool of N records built by HostAdd it returns the
\* record reached by walking (r mod N) links from the head, which is never
\* NULL.
C15_Original ==
    last.op = "HostRandom" =>
        IF HostCount = 0
        THEN /\ ~last.fatal
             /\ ~terminated
             /\ last.rot.ret = NULL
        ELSE /\ ~last.fatal
             /\ last.rot.ret = ListFrom(Hosts)[(last.r % HostCount) + 1]
             /\ last.rot.ret # NULL

\* ----------------------------------------------------- the pipe transport
IsSmbRecv == smbLast.op = "SMBGetJob"
IsSmbSend == smbLast.op \in {"TransportSend", "TransportInit"}
\* the peek of the latest receive succeeded
PeekWorked == IsSmbRecv /\ smbLast.outcome # "PeekFail"
\* the bytes in the pipe began with a whole frame for this session
OwnFrameAhead(data) ==
    /\ Len(data) >= 8
    /\ SubSeq(data, 1, 4) = AgentID
    /\ Len(data) >= 8 + ToUint32(SubSeq(data, 5, 8))
PayloadAhead(data) == SubSeq(data, 9, 8 + ToUint32(SubSeq(data, 5, 8)))

\* C16: a receive that finds between 0 and 7 bytes in a healthy pipe returns
\* TRUE with no message (RecvData NULL, RecvSize 0), reads no byte, and
\* leaves Connected and the handle as they were.
C16_TooSmallIsNoMessage ==
    (PeekWorked /\ Len(smbLast.preData) <= 7) =>
        /\ smbLast.ok
        /\ ~smbLast.RecvSet
        /\ smbLast.RecvSize = 0
        /\ PipeData = smbLast.preData
        /\ Connected = smbLast.preConnected
        /\ Handle = smbLast.preHandle
        /\ HandleOpen

\* a receive on a connected session with three bytes in the pipe
C16_Witness ==
    /\ PeekWorked
    /\ Len(smbLast.preData) = 3
    /\ smbLast.preConnected
    /\ smbLast.ok
    /\ PipeData = smbLast.preData

\* C17: whenever at least 8 bytes are in the pipe and they form a frame
\* id(4) + len(4) + P with this session's AgentID, a receive whose reads work
\* takes the frame out of the pipe and returns exactly P with RecvSize = len,
\* for every payload length, 0 (a frame of exactly 8 bytes) and 1 included.
C17_Original ==
    (PeekWorked /\ smbLast.fault = "none" /\ OwnFrameAhead(smbLast.preData)) =>
        /\ smbLast.ok
        /\ smbLast.RecvData = PayloadAhead(smbLast.preData)
        /\ smbLast.RecvSize = Len(PayloadAhead(smbLast.preData))
        /\ Len(PipeData) = Len(smbLast.preData) - 8 - smbLast.RecvSize

\* C18: every failing receive (peek failed, id read failed, id differs from
\* AgentID, length read failed, body read failed) returns FALSE, leaves
\* Connected FALSE and hands the caller RecvData NULL and RecvSize 0; a body
\* read in part is never returned.
C18_FailedReceive ==
    IsSmbRecv =>
        /\ smbLast.outcome \in {"PeekFail", "TagReadFail", "TagMismatch",
                                "LenReadFail", "BodyReadFail"} => ~smbLast.ok
        /\ smbLast.fault # "none" => ~smbLast.ok
        /\ ~smbLast.ok => /\ ~Connected
                          /\ ~smbLast.RecvSet
                          /\ smbLast.RecvData = <<>>
                          /\ smbLast.RecvSize = 0

\* a connected session reads the header of a frame whose payload is cut short
C18_Witness ==
    /\ IsSmbRecv
    /\ smbLast.outcome = "BodyReadFail"
    /\ smbLast.fault = "none"
    /\ smbLast.preConnected
    /\ Len(smbLast.preData) = 9
    /\ ~smbLast.ok
    /\ ~Connected

\* C19: a send on a stored, open handle whose write fails with ERROR_NO_DATA
\* closes the handle, clears the stored handle, sets Connected to FALSE and
\* returns FALSE; the send that follows creates a new pipe and accepts one
\* peer before it writes.
C19_PeerClosedThenFresh ==
    /\ [](/\ IsSmbSend
          /\ smbLast.preHandle # NULL
          /\ smbLast.preOpen
          /\ smbLast.outcome = "WriteFailNoData"
          => /\ ~smbLast.ok
             /\ smbLast.closed = 1
             /\ ~HandleOpen
             /\ Handle = NULL
             /\ ~Connected)
    /\ [][(Handle = NULL /\ smbLast'.op \in {"TransportSend", "TransportInit"})
            => /\ smbLast'.preHandle = NULL
               /\ smbLast'.outcome # "CreateFail" => smbLast'.created = 1
               /\ smbLast'.wrote = 1
                  => smbLast'.created = 1 /\ smbLast'.accepted = 1]_vars

\* after a peer-closed write failure on a reused handle the next send has
\* made a pipe, accepted a peer and written
C19_Witness ==
    /\ IsSmbSend
    /\ smbLast.prevSend = [outcome |-> "WriteFailNoData", reuse |-> TRUE]
    /\ smbLast.preHandle = NULL
    /\ ~smbLast.preConnected
    /\ smbLast.created = 1
    /\ smbLast.accepted = 1
    /\ smbLast.wrote = 1
    /\ smbLast.ok
    /\ smbLast.op = "TransportSend"

\* C20: a write failure with a cause other than ERROR_NO_DATA is returned to
\* the caller as a failed send, the handle stays open and stored and
\* Connected is left as it was, on the first send of a session and on sends
\* that reuse the handle alike.
C20_Original ==
    (/\ IsSmbSend
     /\ smbLast.outcome = "WriteFailOther"
     /\ smbLast.preHandle # NULL => smbLast.preOpen)
    => /\ ~smbLast.ok
       /\ Handle # NULL
       /\ HandleOpen
       /\ Connected = smbLast.preConnected

\* C21: the response the read loop hands back is the chunks WinHttpReadData
\* returned, joined in the order they came, and its length is the sum of
\* their lengths, whether a zero-length read or a read error ended the loop;
\* after every pass the buffer holds the chunks read so far, so that a later
\* pass leaves the bytes of the earlier ones as they were.
RECURSIVE Concat(_)
Concat(cs) == IF cs = <<>> THEN <<>> ELSE Head(cs) \o Concat(Tail(cs))

C21_ResponseIsConcatenation ==
    /\ read.pc # "idle" =>
          /\ read.RespBuffer = Concat(read.returned)
          /\ read.RespSize = Len(Concat(read.returned))
    /\ read.pc = "done" =>
          /\ read.RespData = Concat(read.returned)
          /\ read.RespLength = Len(Concat(read.returned))
          /\ read.Successful

\* three chunks of both sizes, the last pass a read error
C21_Witness ==
    /\ read.pc = "done"
    /\ read.ended = "error"
    /\ Len(read.returned) = 3
    /\ Len(read.returned[1]) = 1
    /\ Len(read.returned[2]) = MaxChunk
    /\ read.RespData # Zeros(read.RespLength)

\* C23: a send that looks for a proxy (the first request after a rotation on
\* a pool of several hosts) and finds none applies no proxy to its request.
C23_Original ==
    (IsSend /\ last.lookup = 1 /\ ~last.found) => last.applied = NULL

\* C22: whatever way a send returns (success, no session, no connection, no
\* request, failed send or receive, a status other than 200), it has closed
\* every connection and request handle it opened, so that no handle of an
\* earlier send is open when a send starts or returns.
C22_HandlesClosed ==
    (IsSend /\ ~last.fatal) =>
        /\ last.closed = last.connects + last.requests
        /\ last.open = 0

\* a send that opened both handles and failed at the receive, after a send
\* that opened the connection only
C22_Witness ==
    /\ IsSend
    /\ last.outcome = "ReceiveFail"
    /\ last.connects = 1
    /\ last.requests = 1
    /\ last.closed = 2
    /\ failedSends >= 2
    /\ Failures[last.host] >= 1

\* C24: as long as one caller alone runs HostFailure, no counter passes
\* HostMaxRetries.  Two callers whose limit tests and increments interleave
\* can take a counter past it; from then on, unless a call whose test fired
\* before is still about to mark the host, the counter stays above the limit,
\* no limit test on the host fires and its dead flag is never set.
Marking(h) == \E c \in Callers : callers[c].pc = "mark" /\ callers[c].Host = h

Overshot(h) == Failures[h] > HostMaxRetries /\ ~Marking(h)

C24_RaceOvershoots ==
    /\ [](callers[2].calls = 0 =>
            \A h \in PoolRecords : Failures[h] <= HostMaxRetries)
    /\ [][\A h \in PoolRecords :
            Overshot(h) => (Overshot(h))' /\ Dead'[h] = Dead[h]]_vars

\* a live host two failures past the limit, both callers back from their calls
C24_Witness ==
    /\ HostMaxRetries >= 1
    /\ \A c \in Callers : callers[c].pc = "idle" /\ callers[c].calls >= 1
    /\ \E h \in PoolRecords :
          /\ Failures[h] >= HostMaxRetries + 2
          /\ ~Dead[h]
          /\ Host = h

\* C25: the stored pipe handle is null or refers to an open endpoint, after
\* every send, a first send whose wait for the peer fails included.
C25_Original == Handle # NULL => HandleOpen

\* C26: a successful send leaves every Failures counter, every Dead flag and
\* the current host as they were and does not rotate, and it does not clear
\* LookedForProxy; the counters are therefore cumulative: with
\* HostMaxRetries = M >= 1 the first current host is dead exactly from the
\* (M+1)-th failed send on, however many successful sends came in between.
C26_SuccessKeepsCounters ==
    /\ (IsSend /\ last.ok) =>
          /\ Failures = last.pre.Failures
          /\ Dead = last.pre.Dead
          /\ Host = last.host
          /\ ~last.rot.called
          /\ LookedForProxy = (last.pre.LookedForProxy \/ last.lookup = 1)
    /\ (HostMaxRetries >= 1 /\ initialHost # NULL) =>
          (Dead[initialHost] <=> failedSends >= HostMaxRetries + 1)

\* a successful send on a host that has failed as often as it may
C26_Witness ==
    /\ HostMaxRetries = MaxRetries
    /\ IsSend /\ last.ok
    /\ Host = initialHost
    /\ Failures[Host] = HostMaxRetries
    /\ ~Dead[Host]
    /\ failedSends = HostMaxRetries

\* C27: with HostMaxRetries = M >= 1 and a pool of N >= 1 live hosts, when
\* every send fails the current host is NULL once N * (M + 1) sends have
\* failed and at no time before, under Round Robin and under Random whatever
\* RandomNumber32() returns.
C27_ExhaustedAfterAllRetries ==
    (HostMaxRetries >= 1 /\ NumHosts >= 1) =>
        /\ Host = NULL <=> failedSends = NumHosts * (HostMaxRetries + 1)
        /\ failedSends <= NumHosts * (HostMaxRetries + 1)
        /\ Host = NULL => AllDead

\* the largest pool exhausted under Random, the last draw a record that was
\* dead before
C27_Witness ==
    /\ HostMaxRetries = MaxRetries
    /\ NumHosts = MaxHosts
    /\ RotationStrategy = TRANSPORT_HTTP_ROTATION_RANDOM
    /\ failedSends = MaxHosts * (MaxRetries + 1)
    /\ Host = NULL
    /\ IsSend /\ last.rot.called
    /\ last.rot.pick # NULL /\ last.rot.pick # last.host

\* C28: with HostMaxRetries = 0 every Failures counter is 0 at all times and
\* every failed send marks the current host dead and rotates.  Under Round
\* Robin, when every send fails, every record of the pool is the current host
\* again and again: as soon as the records before the current host are the
\* dead ones, the current host moves on to the next record in link order and,
\* from the last record, back to the head with all records reset.
Before(h) == {x \in PoolRecords : h \in Range(ListFrom(Next[x]))}

InCycle == Host # NULL /\ \A x \in PoolRecords : Dead[x] <=> x \in Before(Host)

Unlimited == HostMaxRetries = 0

C28_NoStarvation ==
    /\ [](Unlimited => \A h \in PoolRecords : Failures[h] = 0)
    /\ []((Unlimited /\ IsSend /\ ~last.fatal) =>
            /\ last.rot.called
            /\ last.pre.Dead[last.host] = FALSE
            /\ Dead[last.host] \/ last.rot.reset)
    /\ [][(/\ Unlimited
           /\ RotationStrategy = TRANSPORT_HTTP_ROTATION_ROUND_ROBIN
           /\ InCycle) =>
            /\ InCycle'
            /\ IF Next[Host] # NULL
               THEN Host' = Next[Host] /\ ~last'.rot.reset
               ELSE Host' = Hosts /\ last'.rot.reset]_vars
    /\ \A h \in 1..MaxHosts :
          []<>((/\ Unlimited
                /\ RotationStrategy = TRANSPORT_HTTP_ROTATION_ROUND_ROBIN
                /\ h \in PoolRecords)
               => (Host = h /\ InCycle))

\* the largest pool at its wrap: the last record failed and the head is
\* current again, every record reset
C28_Witness ==
    /\ Unlimited
    /\ RotationStrategy = TRANSPORT_HTTP_ROTATION_ROUND_ROBIN
    /\ NumHosts = MaxHosts
    /\ IsSend /\ last.rot.reset
    /\ last.host # Hosts /\ Next[last.host] = NULL
    /\ last.pre.Dead[Hosts]
    /\ Host = Hosts
    /\ InCycle

\* C29: whatever pool the HostAdd calls have built and whichever records are
\* dead, all of them included, a call of HostCount, of HostCheckup or of
\* HostRotation under Round Robin (its scan, which never advances Count, and
\* its reset walk) returns, each loop after at most one pass per record and
\* one more; HostAdd leaves the list without a cycle and ending in NULL.
RECURSIVE Follow(_, _)
Follow(h, k) == IF k = 0 \/ h = NULL THEN h ELSE Follow(Next[h], k - 1)

NullTerminated == \A h \in DOMAIN Next : Follow(h, Len(Next)) = NULL

C29_WalksTerminate ==
    /\ [](NullTerminated /\ Follow(Hosts, Len(Next)) = NULL)
    /\ [](walk.passes <= Len(Next) + 1)
    /\ [](walk.Count = 0 \/ walk.op # "HostRotation")
    /\ (walk.pc # "idle") ~> (walk.pc = "idle")

\* the scan of the largest pool, all of it dead, has run off the end of the list
C29_Witness ==
    /\ Len(Next) = MaxHosts
    /\ HostMaxRetries >= 1
    /\ \A h \in DOMAIN Dead : Dead[h]
    /\ walk.op = "HostRotation" /\ walk.pc = "idle"
    /\ walk.ret = NULL
    /\ Host = NULL

====
